---------------------------- MODULE Spec2Model ----------------------------
(***************************************************************************)
(* Monte Carlo ransomware loss simulation (CRM-Group-Presentation).        *)
(*                                                                         *)
(* Three scripts share one simulation loop:                                *)
(*   Ransomeware_baseline_montecarlo_calc.py    run_simulation             *)
(*   Ransomeware_mitigation_montecarlo_calc.py  run_simulation             *)
(*   Ransomeware8.py                            run_fair_simulation        *)
(*                                                                         *)
(* Numbers.  The code computes in floating point; the model computes the   *)
(* same expressions exactly, on integers in fixed units:                   *)
(*   - np.random.random() yields u/UDen, u \in 0..UDen-1 (so u/UDen is in  *)
(*     [0,1)); prob_attack is held in the same unit (prob_attack/UDen);    *)
(*   - np.random.uniform(low, high) is low + (high-low)*random_sample();   *)
(*     with random_sample() = r/RDen, r \in 0..RDen-1, the value is        *)
(*     (low*RDen + (high-low)*r)/RDen and the model holds its numerator;   *)
(*   - a recorded loss is held in units of 1/(RDen*RDen):                  *)
(*     days*daily is a product of two numerators, and an additive cost is  *)
(*     multiplied by RDen to bring it to the same unit.                    *)
(***************************************************************************)
EXTENDS Integers, Sequences, FiniteSets

\* number of trials of one run (NUM_SIMULATIONS = 10000 in the scripts)
NUM_SIMULATIONS == 2
\* resolution of np.random.random(): the values u/UDen, u \in 0..UDen-1
UDen == 4
\* resolution of the random_sample() inside np.random.uniform
RDen == 2

\* units of one recorded loss: 1/LossDen
LossDen == RDen * RDen

UVals == 0 .. (UDen - 1)
RVals == 0 .. (RDen - 1)

\* prob_attack values in units of 1/UDen: below 0, 0, inside (0,1), 1, above 1
ProbVals == {0 - 1, 0, 2, UDen, UDen + 1}

\* [low, high] pairs handed to the scripts' range parameters and globals:
\* degenerate, zero lower bound, positive, reversed (low > high), negative.
RangeVals == {<<0, 0>>, <<0, 2>>, <<1, 3>>, <<3, 3>>, <<2, 1>>, <<0 - 1, 1>>}
\* the values of the global daily-impact range of run_simulation
DailyVals == {<<0, 2>>, <<1, 3>>, <<3, 3>>, <<2, 1>>}
NoRange == <<0, 0>>

VARIABLES
    script,                 \* which script runs: "simple" or "fair"
    prob_attack,            \* argument prob_attack, in units of 1/UDen
    days_range,             \* argument days_range
    DAILY_LOSS_RANGE,       \* global DAILY_IMPACT_RANGE / DAILY_LOSS_RANGE
    RESPONSE_COST_RANGE,    \* global RESPONSE_COST_RANGE (Ransomeware8.py)
    SECONDARY_LOSS_RANGE,   \* global SECONDARY_LOSS_RANGE (Ransomeware8.py)
    pc,                     \* position of the script
    losses,                 \* the list `losses` of the running simulation
    attacks,                \* history: per trial, whether the magnitude branch ran
    nDraws,                 \* history: random values consumed so far
    ale,                    \* np.mean(losses)                (Ransomeware8.py)
    impact,                 \* losses[losses > 0]
    report,                 \* the statistics of the console report / histogram
    lec,                    \* what plot_lec handed to plt.plot
    error,                  \* the exception that ended the script, or "none"
    \* two processes running a two-sample script, each on its own generator
    args,                   \* the (prob_attack, days_range) of the two invocations
    seed,                   \* per process: the state its generator started in
    rng,                    \* per process: the state of np.random's generator
    ppc,                    \* per process: position of the script
    cur,                    \* per process: `losses` of the running invocation
    losses_baseline,        \* per process: the first invocation's result
    losses_mitigated,       \* per process: the second invocation's result
    metrics                 \* per process: ale_*, roi_reduction, rosi

vars == <<script, prob_attack, days_range, DAILY_LOSS_RANGE, RESPONSE_COST_RANGE,
          SECONDARY_LOSS_RANGE, pc, losses, attacks, nDraws, ale, impact,
          report, lec, error, args, seed, rng, ppc, cur, losses_baseline,
          losses_mitigated, metrics>>

cfgVars == <<script, prob_attack, days_range, DAILY_LOSS_RANGE,
             RESPONSE_COST_RANGE, SECONDARY_LOSS_RANGE>>

runVars == <<prob_attack, days_range, pc, losses, attacks, nDraws, ale, impact,
             report, lec, error>>

pairVars == <<args, seed, rng, ppc, cur, losses_baseline, losses_mitigated, metrics>>

-----------------------------------------------------------------------------
(* Configuration validity, as the data model states it.  The scripts never *)
(* test it: it is used only to state the claims.                           *)

ValidRange(rg) == rg[1] >= 0 /\ rg[2] >= 0 /\ rg[1] <= rg[2]

ValidConfig ==
    /\ prob_attack >= 0 /\ prob_attack <= UDen
    /\ ValidRange(days_range)
    /\ ValidRange(DAILY_LOSS_RANGE)
    /\ ValidRange(RESPONSE_COST_RANGE)
    /\ ValidRange(SECONDARY_LOSS_RANGE)

-----------------------------------------------------------------------------
(* The simulation loop.                                                    *)

\* off by one: an iteration too many
LoopContinuesInclusive(n) == n <= NUM_SIMULATIONS

\* `for _ in range(NUM_SIMULATIONS)`: another iteration runs
LoopContinues(n) == n < NUM_SIMULATIONS

\* `if np.random.random() > prob_attack: losses.append(0); continue`
NoAttack(u, prob) == u > prob

\* the value appended when the attack does not occur
NoAttackLoss == 0

\* the offset `low` dropped
UniformNoOffset(rg, r) == (rg[2] - rg[1]) * r

\* np.random.uniform(low, high) = low + (high - low) * random_sample(),
\* numerator over RDen
Uniform(rg, r) == rg[1] * RDen + (rg[2] - rg[1]) * r

\* a running total: the last recorded loss carried into this trial's
TotalLossCarry(days, daily_loss) ==
    days * daily_loss + (IF losses = <<>> THEN 0 ELSE losses[Len(losses)])

\* the two draws added where they are multiplied
TotalLossSum(days, daily_loss) == RDen * days + RDen * daily_loss

\* run_simulation: total_loss = days * daily_loss           (units 1/LossDen)
TotalLossSimple(days, daily_loss) == days * daily_loss

\* run_fair_simulation: downtime_loss + response_loss + secondary_loss
TotalLossFair(days, daily_cost, response_loss, secondary_loss) ==
    days * daily_cost + RDen * response_loss + RDen * secondary_loss

\* the magnitude draws of one trial: 2 in run_simulation, 4 in run_fair_simulation
MagnitudeDraws == IF script = "fair" THEN 4 ELSE 2

TrialNoAttack ==
    /\ pc = "sim"
    /\ LoopContinues(Len(losses))
    /\ \E u \in UVals :
          /\ NoAttack(u, prob_attack)
          /\ losses' = Append(losses, NoAttackLoss)
          /\ attacks' = Append(attacks, FALSE)
          /\ nDraws' = nDraws + 1
    /\ UNCHANGED <<pairVars, cfgVars, pc, ale, impact, report, lec, error>>

TrialAttackSimple ==
    /\ pc = "sim"
    /\ script = "simple"
    /\ LoopContinues(Len(losses))
    /\ \E u \in UVals, r1, r2 \in RVals :
          /\ ~NoAttack(u, prob_attack)
          /\ losses' = Append(losses,
                 TotalLossSimple(Uniform(days_range, r1),
                                 Uniform(DAILY_LOSS_RANGE, r2)))
          /\ attacks' = Append(attacks, TRUE)
          /\ nDraws' = nDraws + 1 + MagnitudeDraws
    /\ UNCHANGED <<pairVars, cfgVars, pc, ale, impact, report, lec, error>>

TrialAttackFair ==
    /\ pc = "sim"
    /\ script = "fair"
    /\ LoopContinues(Len(losses))
    /\ \E u \in UVals, r1, r2, r3, r4 \in RVals :
          /\ ~NoAttack(u, prob_attack)
          /\ losses' = Append(losses,
                 TotalLossFair(Uniform(days_range, r1),
                               Uniform(DAILY_LOSS_RANGE, r2),
                               Uniform(RESPONSE_COST_RANGE, r3),
                               Uniform(SECONDARY_LOSS_RANGE, r4)))
          /\ attacks' = Append(attacks, TRUE)
          /\ nDraws' = nDraws + 1 + MagnitudeDraws
    /\ UNCHANGED <<pairVars, cfgVars, pc, ale, impact, report, lec, error>>

\* `return np.array(losses)`: the loop is over
LoopExit ==
    /\ pc = "sim"
    /\ ~LoopContinues(Len(losses))
    /\ pc' = IF script = "fair" THEN "metrics" ELSE "filter"
    /\ UNCHANGED <<pairVars, cfgVars, losses, attacks, nDraws, ale, impact, report, lec, error>>

-----------------------------------------------------------------------------
(* Statistics.  A mean or percentile is a fraction num/den in the scripts'  *)
(* own unit ($ million): the recorded numerators are divided by LossDen.   *)
(* nan is numpy's result over an empty array.                              *)

RECURSIVE Gcd(_, _)
Gcd(a, b) == IF b = 0 THEN a ELSE Gcd(b, a % b)

\* the fraction n/d, d > 0, in lowest terms
Rat(n, d) ==
    LET g == Gcd(IF n < 0 THEN 0 - n ELSE n, d)
    IN  [nan |-> FALSE, num |-> n \div g, den |-> d \div g]
NaN == [nan |-> TRUE, num |-> 0, den |-> 1]

RECURSIVE SumSeq(_)
SumSeq(s) == IF s = <<>> THEN 0 ELSE Head(s) + SumSeq(Tail(s))

\* np.mean: sum / len; nan (with a RuntimeWarning) over an empty array
NpMean(s) == IF Len(s) = 0 THEN NaN ELSE Rat(SumSeq(s), Len(s) * LossDen)

\* the filter keeping zero losses
NonNegative(s) == SelectSeq(s, LAMBDA x : x >= 0)

\* losses[losses > 0]
Positive(s) == SelectSeq(s, LAMBDA x : x > 0)

RECURSIVE Insert(_, _)
Insert(x, s) ==
    IF s = <<>> THEN <<x>>
    ELSE IF x <= Head(s) THEN <<x>> \o s
    ELSE <<Head(s)>> \o Insert(x, Tail(s))

\* np.sort: ascending, every element kept
RECURSIVE NpSort(_)
NpSort(s) == IF s = <<>> THEN <<>> ELSE Insert(Head(s), NpSort(Tail(s)))

\* np.percentile(s, q), s not empty: linear interpolation between the order
\* statistics around the virtual index (n-1)*q/100
NpPercentile(s, q) ==
    LET a  == NpSort(s)
        n  == Len(a)
        lo == ((n - 1) * q) \div 100
        g  == (n - 1) * q - 100 * lo
        hi == IF lo + 2 <= n THEN lo + 2 ELSE n
    IN  Rat(100 * a[lo + 1] + g * (a[hi] - a[lo + 1]), 100 * LossDen)

\* np.min / np.max, s not empty
NpMin(s) == CHOOSE x \in {s[i] : i \in 1..Len(s)} : \A j \in 1..Len(s) : x <= s[j]
NpMax(s) == CHOOSE x \in {s[i] : i \in 1..Len(s)} : \A j \in 1..Len(s) : x >= s[j]

NoReport == [printed |-> FALSE, avg |-> NaN, p90 |-> NaN, p95 |-> NaN,
             min |-> 0, max |-> 0]

\* ale_baseline = np.mean(losses_baseline)                   (Ransomeware8.py)
Metrics ==
    /\ pc = "metrics"
    /\ ale' = NpMean(losses)
    /\ pc' = "filter"
    /\ UNCHANGED <<pairVars, cfgVars, losses, attacks, nDraws, impact, report, lec, error>>

\* impact_baseline = losses_baseline[losses_baseline > 0]
Filter ==
    /\ pc = "filter"
    /\ impact' = Positive(losses)
    /\ pc' = "report"
    /\ UNCHANGED <<pairVars, cfgVars, losses, attacks, nDraws, ale, report, lec, error>>

\* print_console_report(impact_base), impact_base not empty
PrintConsoleReport ==
    /\ pc = "report"
    /\ script = "simple"
    /\ Len(impact) > 0
    /\ report' = [printed |-> TRUE,
                  avg |-> NpMean(impact),
                  p90 |-> NpPercentile(impact, 90),
                  p95 |-> NpPercentile(impact, 95),
                  min |-> NpMin(impact),
                  max |-> NpMax(impact)]
    /\ pc' = "chart"
    /\ UNCHANGED <<pairVars, cfgVars, losses, attacks, nDraws, ale, impact, lec, error>>

\* print_console_report(impact_base) over an empty array: np.mean yields nan;
\* np.percentile yields nan or raises IndexError, by numpy version; np.min
\* raises ValueError.  Nothing is printed and the script ends there.
PrintConsoleReportEmpty ==
    /\ pc = "report"
    /\ script = "simple"
    /\ Len(impact) = 0
    /\ \E e \in {"IndexError", "ValueError"} : error' = e
    /\ pc' = "crashed"
    /\ UNCHANGED <<pairVars, cfgVars, losses, attacks, nDraws, ale, impact, report, lec>>

\* generate_risk_chart(impact_base): the same statistics, drawn
GenerateRiskChart ==
    /\ pc = "chart"
    /\ pc' = "done"
    /\ UNCHANGED <<pairVars, cfgVars, losses, attacks, nDraws, ale, impact, report, lec, error>>

\* Ransomeware8.py, Visualization 1: np.mean(impact_baseline) labels the
\* histogram's average line; over an empty array it is nan and the script
\* goes on.
Histogram ==
    /\ pc = "report"
    /\ script = "fair"
    /\ report' = [NoReport EXCEPT !.printed = TRUE, !.avg = NpMean(impact)]
    /\ pc' = "lec"
    /\ UNCHANGED <<pairVars, cfgVars, losses, attacks, nDraws, ale, impact, lec, error>>

-----------------------------------------------------------------------------
(* plot_lec                                                                *)

NoPlot == [plotted |-> FALSE, points |-> <<>>]

\* sorted_losses_non_zero, with n_exceeding = np.arange(len, 0, -1) and
\* prob_exceed = n_exceeding / len(losses): point i is
\* (sorted_losses_non_zero[i], (len - i + 1) / len(losses))
LecPoints(ls) ==
    LET nz == Positive(NpSort(ls))
    IN  [i \in 1..Len(nz) |->
            [x |-> nz[i], num |-> Len(nz) - i + 1, den |-> Len(ls)]]

\* plot_lec(losses, ...): `if len(sorted_losses_non_zero) == 0: return`
PlotLec(ls) ==
    IF Len(Positive(NpSort(ls))) = 0
    THEN NoPlot
    ELSE [plotted |-> TRUE, points |-> LecPoints(ls)]

PlotLecStep ==
    /\ pc = "lec"
    /\ lec' = PlotLec(losses)
    /\ pc' = "done"
    /\ UNCHANGED <<pairVars, cfgVars, losses, attacks, nDraws, ale, impact, report, error>>

-----------------------------------------------------------------------------
(* One scenario run.                                                       *)

\* the configurations of run_fair_simulation that are explored, as
\* <<days_range, DAILY_LOSS_RANGE, RESPONSE_COST_RANGE, SECONDARY_LOSS_RANGE>>:
\* valid with positive minima, valid with zero minima, valid with
\* degenerate downtime ranges, a reversed range, a negative bound
FairConfigs ==
    {<<<<1, 3>>, <<1, 3>>, <<1, 1>>, <<0, 0>>>>,
     <<<<0, 2>>, <<3, 3>>, <<0, 0>>, <<0, 2>>>>,
     <<<<3, 3>>, <<3, 3>>, <<1, 2>>, <<0, 0>>>>,
     <<<<3, 3>>, <<1, 3>>, <<0, 0>>, <<2, 1>>>>,
     <<<<0 - 1, 1>>, <<3, 3>>, <<1, 1>>, <<0, 0>>>>}

\* the two-sample processes are not part of a single scenario run
PairIdle ==
    /\ args = <<>>
    /\ seed = <<>>
    /\ rng = <<>>
    /\ ppc = <<>>
    /\ cur = <<>>
    /\ losses_baseline = <<>>
    /\ losses_mitigated = <<>>
    /\ metrics = <<>>

InitRun ==
    /\ pc = "sim"
    /\ losses = <<>>
    /\ attacks = <<>>
    /\ nDraws = 0
    /\ ale = NaN
    /\ impact = <<>>
    /\ report = NoReport
    /\ lec = NoPlot
    /\ error = "none"

Init ==
    /\ prob_attack \in ProbVals
    /\ \/ /\ script = "simple"
          /\ days_range \in RangeVals
          /\ DAILY_LOSS_RANGE \in DailyVals
          /\ RESPONSE_COST_RANGE = NoRange
          /\ SECONDARY_LOSS_RANGE = NoRange
       \/ /\ script = "fair"
          /\ \E f \in FairConfigs :
                /\ days_range = f[1]
                /\ DAILY_LOSS_RANGE = f[2]
                /\ RESPONSE_COST_RANGE = f[3]
                /\ SECONDARY_LOSS_RANGE = f[4]
    /\ InitRun
    /\ PairIdle

Next ==
    \/ TrialNoAttack
    \/ TrialAttackSimple
    \/ TrialAttackFair
    \/ LoopExit
    \/ Metrics
    \/ Filter
    \/ PrintConsoleReport
    \/ PrintConsoleReportEmpty
    \/ GenerateRiskChart
    \/ Histogram
    \/ PlotLecStep

Spec == Init /\ [][Next]_vars

-----------------------------------------------------------------------------
(* Claims about one scenario run.                                          *)

Trials == 1 .. Len(losses)
AfterSim == pc # "sim"
AfterFilter == pc \in {"report", "chart", "lec", "done", "crashed"}
AfterStats == pc \in {"chart", "lec", "done", "crashed"}

\* the trials in which the magnitude branch ran, in trial order
RECURSIVE AttackLosses(_, _)
AttackLosses(ls, as) ==
    IF ls = <<>> THEN <<>>
    ELSE (IF Head(as) THEN <<Head(ls)>> ELSE <<>>) \o AttackLosses(Tail(ls), Tail(as))

\* smallest and largest composed loss of an attack trial, in loss units
MinAttackLoss ==
    LossDen * (days_range[1] * DAILY_LOSS_RANGE[1]
               + RESPONSE_COST_RANGE[1] + SECONDARY_LOSS_RANGE[1])
MaxAttackLoss ==
    LossDen * (days_range[2] * DAILY_LOSS_RANGE[2]
               + RESPONSE_COST_RANGE[2] + SECONDARY_LOSS_RANGE[2])
SumOfMaxima ==
    LossDen * (days_range[2] + DAILY_LOSS_RANGE[2]
               + RESPONSE_COST_RANGE[2] + SECONDARY_LOSS_RANGE[2])

\* one more step of the simulation loop can be taken
LoopCanStep ==
    ENABLED (TrialNoAttack \/ TrialAttackSimple \/ TrialAttackFair \/ LoopExit)

\* C1: under a valid configuration the loop never records more than
\* NUM_SIMULATIONS losses nor a negative one, whatever the draws; while it
\* runs it can always take its next step (each step but the last appends one
\* loss, so at most NUM_SIMULATIONS + 1 steps remain); and what it returns
\* has exactly NUM_SIMULATIONS elements.
C1_SampleSizeAndSign ==
    ValidConfig =>
        /\ Len(losses) <= NUM_SIMULATIONS
        /\ \A i \in Trials : losses[i] >= 0
        /\ pc = "sim" => LoopCanStep
        /\ AfterSim => Len(losses) = NUM_SIMULATIONS

C1_Witness ==
    /\ ValidConfig
    /\ pc = "done"
    /\ Len(losses) = NUM_SIMULATIONS
    /\ \E i, j \in Trials : losses[i] = 0 /\ ~attacks[i] /\ losses[j] > 0

\* C2 as claimed: under a valid configuration a trial records 0 when the
\* attack does not occur and a strictly positive loss when it does, so the
\* filter `losses > 0` keeps exactly the attack trials.
C2_ZeroIffNoAttack ==
    (ValidConfig /\ prob_attack > 0) =>
        /\ \A i \in Trials : (attacks[i] <=> losses[i] > 0) /\ (~attacks[i] => losses[i] = 0)
        /\ AfterFilter => impact = AttackLosses(losses, attacks)

\* C2 amended: a trial records 0 when the attack does not occur; when it
\* occurs the loss is at least dMin*cMin plus the additional minima, so it
\* is strictly positive, and the filter keeps exactly the attack trials,
\* whenever that lower bound is positive.
C2_PositiveWhenFloorPositive ==
    ValidConfig =>
        /\ \A i \in Trials :
              /\ ~attacks[i] => losses[i] = 0
              /\ attacks[i] => losses[i] >= MinAttackLoss
              /\ (attacks[i] /\ MinAttackLoss > 0) => losses[i] > 0
        /\ (AfterFilter /\ MinAttackLoss > 0) => impact = AttackLosses(losses, attacks)

C2_Witness ==
    /\ ValidConfig
    /\ MinAttackLoss > 0
    /\ pc = "done"
    /\ \E i, j \in Trials : attacks[i] /\ ~attacks[j]
    /\ Len(impact) = 1

\* C3: with prob_attack = 0 every trial records 0, whatever u is, and the
\* impact-only subsequence is empty.
C3_ZeroProbabilityAllZero ==
    (ValidConfig /\ prob_attack = 0) =>
        /\ \A i \in Trials : losses[i] = 0
        /\ AfterFilter => impact = <<>>

\* C4: once a statistic has been requested over an empty impact-only
\* subsequence, the scenario has ended in an explicit error.
C4_EmptySampleSurfaced ==
    (ValidConfig /\ AfterStats /\ impact = <<>> /\ \A i \in Trials : ~attacks[i])
        => error # "none"

\* C5: under an invalid configuration no random value is drawn, no loss is
\* recorded and the run ends in InvalidConfiguration.
C5_InvalidConfigurationRejected ==
    ~ValidConfig =>
        /\ nDraws = 0
        /\ losses = <<>>
        /\ AfterSim => error = "InvalidConfiguration"

\* C6 as claimed: every strictly positive loss lies between dMin*cMin and
\* the sum of the range maxima dMax + cMax + additional maxima.
C6_BoundedBySumOfMaxima ==
    (ValidConfig /\ prob_attack > 0) =>
        \A i \in Trials :
            losses[i] > 0 =>
                /\ losses[i] >= LossDen * days_range[1] * DAILY_LOSS_RANGE[1]
                /\ losses[i] <= SumOfMaxima

\* C6 amended: every strictly positive loss lies between dMin*cMin and
\* dMax*cMax plus the maxima of the additional cost ranges.
C6_BoundedByProductOfMaxima ==
    ValidConfig =>
        \A i \in Trials :
            losses[i] > 0 =>
                /\ losses[i] >= LossDen * days_range[1] * DAILY_LOSS_RANGE[1]
                /\ losses[i] <= MaxAttackLoss

C6_Witness ==
    /\ ValidConfig
    /\ AfterSim
    /\ \E i \in Trials : losses[i] > SumOfMaxima /\ losses[i] = MaxAttackLoss
    /\ \E i \in Trials : ~attacks[i]

DistinctPositive == {losses[i] : i \in Trials} \cap {v \in Int : v > 0}
CountGE(v) == Cardinality({i \in Trials : losses[i] >= v})

\* C7: the curve plot_lec draws has one point per distinct strictly
\* positive loss v, in ascending order of v, at probability
\* (number of trials with loss >= v) / N, N the full trial count.
C7_ExceedanceCurve ==
    (ValidConfig /\ prob_attack > 0 /\ script = "fair" /\ pc = "done") =>
        LET pts == lec.points
        IN  /\ Len(pts) = Cardinality({losses[i] : i \in {j \in Trials : losses[j] > 0}})
            /\ \A i, j \in 1..Len(pts) : i < j => pts[i].x < pts[j].x
            /\ \A i \in 1..Len(pts) :
                  /\ pts[i].x > 0
                  /\ pts[i].num * Len(losses) = CountGE(pts[i].x) * pts[i].den

\* comparisons of means; a comparison with nan is false
RatGE(a, b) == ~a.nan /\ ~b.nan /\ a.num * b.den >= b.num * a.den
RatEq(a, b) == ~a.nan /\ ~b.nan /\ a.num * b.den = b.num * a.den

MeansTaken == script = "fair" /\ pc \in {"lec", "done"}

\* C9 as claimed: the mean of the impact-only subsequence is at least the
\* mean of the full sample, and the two are equal only when p = 1.
C9_EqualOnlyWhenCertain ==
    (ValidConfig /\ prob_attack > 0 /\ MeansTaken /\ impact # <<>>) =>
        /\ RatGE(report.avg, ale)
        /\ RatEq(report.avg, ale) => prob_attack = UDen

\* C9 amended: when the impact-only subsequence is not empty its mean is at
\* least the mean of the full sample, and the two are equal exactly when
\* every trial recorded a strictly positive loss.
C9_EqualIffNoZeroTrial ==
    (MeansTaken /\ impact # <<>>) =>
        /\ RatGE(report.avg, ale)
        /\ RatEq(report.avg, ale) <=> \A i \in Trials : losses[i] > 0

C9_Witness ==
    /\ ValidConfig
    /\ MeansTaken
    /\ prob_attack > 0 /\ prob_attack < UDen
    /\ \A i \in Trials : losses[i] > 0
    /\ RatEq(report.avg, ale)

-----------------------------------------------------------------------------
(* Two-sample scripts on a seeded generator.                               *)
(*                                                                         *)
(* Ransomeware_mitigation_montecarlo_calc.py and Ransomeware8.py call the  *)
(* simulation twice in one process, both calls drawing from np.random's    *)
(* process-wide generator, which no script seeds.  Two processes A and B   *)
(* run the same script on the same configuration, each on its own          *)
(* generator; the state a generator starts in is its seed.  The generator  *)
(* is a deterministic function of its state, here the Lehmer recurrence    *)
(* s' = 3 s mod 17 over 1..16, whose k-th output is (s - 1)/16.            *)

Procs == {"A", "B"}
SeedVals == 1 .. 16

\* the generator's next state
RngNext(s) == (3 * s) % 17

\* random_sample() read off state s, as a numerator over den
RandomSample(s, den) == ((s - 1) * den) \div 16

\* one generator shared by the two processes
RngOfShared(p) == rng["A"]

\* the generator process p draws from: its own process-wide np.random
RngOf(p) == rng[p]

Running(p) == ppc[p] \in {"run1", "run2"}

\* the arguments of the invocation process p is in
Arg(p) == IF ppc[p] = "run1" THEN args[1] ELSE args[2]

ProcTrialNoAttack(p) ==
    /\ Running(p)
    /\ LoopContinues(Len(cur[p]))
    /\ LET s1 == RngNext(RngOf(p))
       IN  /\ NoAttack(RandomSample(s1, UDen), Arg(p).prob)
           /\ cur' = [cur EXCEPT ![p] = Append(@, NoAttackLoss)]
           /\ rng' = [rng EXCEPT ![p] = s1]
    /\ UNCHANGED <<runVars, script, DAILY_LOSS_RANGE, RESPONSE_COST_RANGE,
                   SECONDARY_LOSS_RANGE, args, seed, ppc, losses_baseline,
                   losses_mitigated, metrics>>

ProcTrialAttackSimple(p) ==
    /\ Running(p)
    /\ script = "simple"
    /\ LoopContinues(Len(cur[p]))
    /\ LET s1 == RngNext(RngOf(p))
           s2 == RngNext(s1)
           s3 == RngNext(s2)
       IN  /\ ~NoAttack(RandomSample(s1, UDen), Arg(p).prob)
           /\ cur' = [cur EXCEPT ![p] = Append(@,
                  TotalLossSimple(Uniform(Arg(p).days, RandomSample(s2, RDen)),
                                  Uniform(DAILY_LOSS_RANGE, RandomSample(s3, RDen))))]
           /\ rng' = [rng EXCEPT ![p] = s3]
    /\ UNCHANGED <<runVars, script, DAILY_LOSS_RANGE, RESPONSE_COST_RANGE,
                   SECONDARY_LOSS_RANGE, args, seed, ppc, losses_baseline,
                   losses_mitigated, metrics>>

ProcTrialAttackFair(p) ==
    /\ Running(p)
    /\ script = "fair"
    /\ LoopContinues(Len(cur[p]))
    /\ LET s1 == RngNext(RngOf(p))
           s2 == RngNext(s1)
           s3 == RngNext(s2)
           s4 == RngNext(s3)
           s5 == RngNext(s4)
       IN  /\ ~NoAttack(RandomSample(s1, UDen), Arg(p).prob)
           /\ cur' = [cur EXCEPT ![p] = Append(@,
                  TotalLossFair(Uniform(Arg(p).days, RandomSample(s2, RDen)),
                                Uniform(DAILY_LOSS_RANGE, RandomSample(s3, RDen)),
                                Uniform(RESPONSE_COST_RANGE, RandomSample(s4, RDen)),
                                Uniform(SECONDARY_LOSS_RANGE, RandomSample(s5, RDen))))]
           /\ rng' = [rng EXCEPT ![p] = s5]
    /\ UNCHANGED <<runVars, script, DAILY_LOSS_RANGE, RESPONSE_COST_RANGE,
                   SECONDARY_LOSS_RANGE, args, seed, ppc, losses_baseline,
                   losses_mitigated, metrics>>

\* losses_baseline = run_simulation(...): the first invocation returns
ProcReturnBaseline(p) ==
    /\ ppc[p] = "run1"
    /\ ~LoopContinues(Len(cur[p]))
    /\ losses_baseline' = [losses_baseline EXCEPT ![p] = cur[p]]
    /\ cur' = [cur EXCEPT ![p] = <<>>]
    /\ ppc' = [ppc EXCEPT ![p] = "run2"]
    /\ UNCHANGED <<runVars, script, DAILY_LOSS_RANGE, RESPONSE_COST_RANGE,
                   SECONDARY_LOSS_RANGE, args, seed, rng, losses_mitigated, metrics>>

\* losses_mitigated = run_simulation(...): the second invocation returns
ProcReturnMitigated(p) ==
    /\ ppc[p] = "run2"
    /\ ~LoopContinues(Len(cur[p]))
    /\ losses_mitigated' = [losses_mitigated EXCEPT ![p] = cur[p]]
    /\ cur' = [cur EXCEPT ![p] = <<>>]
    /\ ppc' = [ppc EXCEPT ![p] = IF script = "fair" THEN "metrics" ELSE "done"]
    /\ UNCHANGED <<runVars, script, DAILY_LOSS_RANGE, RESPONSE_COST_RANGE,
                   SECONDARY_LOSS_RANGE, args, seed, rng, losses_baseline, metrics>>

-----------------------------------------------------------------------------
(* Metrics Calculation (Ransomeware8.py)                                   *)

INVESTMENT_COST == 15

RatOfInt(n) == Rat(n, 1)
RatSub(a, b) ==
    IF a.nan \/ b.nan THEN NaN ELSE Rat(a.num * b.den - b.num * a.den, a.den * b.den)
RatMul(a, b) ==
    IF a.nan \/ b.nan THEN NaN ELSE Rat(a.num * b.num, a.den * b.den)
\* a / b for b > 0
RatDiv(a, b) ==
    IF a.nan \/ b.nan THEN NaN ELSE Rat(a.num * b.den, a.den * b.num)

\* the mean over the impact-only trials
AleImpactOnly(ls) == NpMean(Positive(ls))

\* ale_baseline = np.mean(losses_baseline): the mean over all trials
Ale(ls) == NpMean(ls)

\* roi_reduction = ale_baseline - ale_mitigated
RoiReduction(ale_b, ale_m) == RatSub(ale_b, ale_m)

\* rosi = ((roi_reduction - INVESTMENT_COST) / INVESTMENT_COST) * 100
Rosi(roi_reduction) ==
    RatMul(RatDiv(RatSub(roi_reduction, RatOfInt(INVESTMENT_COST)),
                  RatOfInt(INVESTMENT_COST)),
           RatOfInt(100))

NoMetrics == [ale_baseline |-> NaN, ale_mitigated |-> NaN,
              roi_reduction |-> NaN, rosi |-> NaN]

ProcMetrics(p) ==
    /\ ppc[p] = "metrics"
    /\ LET ale_b == Ale(losses_baseline[p])
           ale_m == Ale(losses_mitigated[p])
           roi   == RoiReduction(ale_b, ale_m)
       IN  metrics' = [metrics EXCEPT ![p] =
               [ale_baseline |-> ale_b, ale_mitigated |-> ale_m,
                roi_reduction |-> roi, rosi |-> Rosi(roi)]]
    /\ ppc' = [ppc EXCEPT ![p] = "done"]
    /\ UNCHANGED <<runVars, script, DAILY_LOSS_RANGE, RESPONSE_COST_RANGE,
                   SECONDARY_LOSS_RANGE, args, seed, rng, cur, losses_baseline,
                   losses_mitigated>>

\* the two-sample configurations explored: the mitigation script's shape
\* (one probability, two downtime ranges), an invocation repeated with the
\* same arguments, and Ransomeware8.py's shape (two probabilities, two
\* downtime ranges, additional costs)
PairConfigs ==
    {[script |-> "simple", daily |-> <<1, 3>>, resp |-> NoRange, sec |-> NoRange,
      args |-> <<[prob |-> 2, days |-> <<1, 3>>], [prob |-> 2, days |-> <<0, 2>>]>>],
     [script |-> "simple", daily |-> <<1, 3>>, resp |-> NoRange, sec |-> NoRange,
      args |-> <<[prob |-> 2, days |-> <<1, 3>>], [prob |-> 2, days |-> <<1, 3>>]>>],
     [script |-> "fair", daily |-> <<1, 3>>, resp |-> <<1, 2>>, sec |-> <<0, 2>>,
      args |-> <<[prob |-> 2, days |-> <<1, 3>>], [prob |-> 1, days |-> <<0, 2>>]>>],
     [script |-> "fair", daily |-> <<1, 3>>, resp |-> <<1, 2>>, sec |-> <<0, 2>>,
      args |-> <<[prob |-> 2, days |-> <<1, 3>>], [prob |-> 2, days |-> <<1, 3>>]>>],
     [script |-> "fair", daily |-> <<30, 30>>, resp |-> <<25, 25>>, sec |-> <<175, 175>>,
      args |-> <<[prob |-> 2, days |-> <<20, 20>>], [prob |-> 2, days |-> <<0, 0>>]>>]}

\* a single scenario run is not part of the two-sample processes
RunIdle ==
    /\ prob_attack = 0
    /\ days_range = NoRange
    /\ pc = "off"
    /\ losses = <<>>
    /\ attacks = <<>>
    /\ nDraws = 0
    /\ ale = NaN
    /\ impact = <<>>
    /\ report = NoReport
    /\ lec = NoPlot
    /\ error = "none"

InitPair ==
    /\ \E c \in PairConfigs :
          /\ script = c.script
          /\ DAILY_LOSS_RANGE = c.daily
          /\ RESPONSE_COST_RANGE = c.resp
          /\ SECONDARY_LOSS_RANGE = c.sec
          /\ args = c.args
    /\ seed \in [Procs -> SeedVals]
    /\ rng = seed
    /\ ppc = [p \in Procs |-> "run1"]
    /\ cur = [p \in Procs |-> <<>>]
    /\ losses_baseline = [p \in Procs |-> <<>>]
    /\ losses_mitigated = [p \in Procs |-> <<>>]
    /\ metrics = [p \in Procs |-> NoMetrics]
    /\ RunIdle

NextPair ==
    \E p \in Procs :
        \/ ProcTrialNoAttack(p)
        \/ ProcTrialAttackSimple(p)
        \/ ProcTrialAttackFair(p)
        \/ ProcReturnBaseline(p)
        \/ ProcReturnMitigated(p)
        \/ ProcMetrics(p)

SpecPair == InitPair /\ [][NextPair]_vars

-----------------------------------------------------------------------------
(* Claims about the two-sample scripts.                                    *)

Returned1(p) == ppc[p] # "run1"
Returned2(p) == ppc[p] \in {"metrics", "done"}

SameSeedSameSamples ==
    seed["A"] = seed["B"] =>
        /\ (Returned1("A") /\ Returned1("B")) => losses_baseline["A"] = losses_baseline["B"]
        /\ (Returned2("A") /\ Returned2("B")) => losses_mitigated["A"] = losses_mitigated["B"]

IsInt(a, n) == ~a.nan /\ a.num = n * a.den

\* C10: benefit = mean(baseline) - mean(mitigated), both means over all N
\* trials, and ROSI = ((benefit - investmentCost) / investmentCost) * 100;
\* means 400 and 100 at investment cost 15 give benefit 300 and ROSI 1900.
C10_BenefitAndRosi ==
    \A p \in Procs :
        (script = "fair" /\ ppc[p] = "done") =>
            LET m  == metrics[p]
                sb == SumSeq(losses_baseline[p])
                sm == SumSeq(losses_mitigated[p])
                n  == NUM_SIMULATIONS * LossDen
            IN  /\ ~m.roi_reduction.nan /\ ~m.rosi.nan
                /\ m.roi_reduction.num * n = (sb - sm) * m.roi_reduction.den
                /\ m.rosi.num * (INVESTMENT_COST * n)
                      = 100 * ((sb - sm) - INVESTMENT_COST * n) * m.rosi.den
                /\ (IsInt(m.ale_baseline, 400) /\ IsInt(m.ale_mitigated, 100)
                      /\ INVESTMENT_COST = 15)
                      => IsInt(m.roi_reduction, 300) /\ IsInt(m.rosi, 1900)

C10_Witness ==
    \E p \in Procs :
        /\ script = "fair" /\ ppc[p] = "done"
        /\ IsInt(metrics[p].ale_baseline, 400)
        /\ IsInt(metrics[p].ale_mitigated, 100)
        /\ IsInt(metrics[p].rosi, 1900)
        /\ \E i \in 1..Len(losses_baseline[p]) : losses_baseline[p][i] = 0
        /\ \E i \in 1..Len(losses_mitigated[p]) : losses_mitigated[p][i] = 0

-----------------------------------------------------------------------------
(* Claim about the order and independence of trials (one scenario run).    *)

\* the values one np.random.uniform(low, high) can yield, numerators over RDen
DrawsOf(rg) == {rg[1] * RDen + (rg[2] - rg[1]) * r : r \in RVals}

\* what one trial can record under the configuration, from its own draws
\* alone: 0, or days * dailyLoss + the additional cost components
OwnDrawLosses(attacked) ==
    IF ~attacked THEN {0}
    ELSE {d * c + RDen * a + RDen * b :
             d \in DrawsOf(days_range), c \in DrawsOf(DAILY_LOSS_RANGE),
             a \in DrawsOf(RESPONSE_COST_RANGE), b \in DrawsOf(SECONDARY_LOSS_RANGE)}

\* a step that runs one trial
TrialStep == Len(attacks') = Len(attacks) + 1

C11_Step ==
    /\ TrialStep =>
          /\ Len(losses') = Len(losses) + 1
          /\ \A i \in 1..Len(losses) : losses'[i] = losses[i]
          /\ losses'[Len(losses')] \in OwnDrawLosses(attacks'[Len(attacks')])
    /\ ~TrialStep => losses' = losses

\* C11: after the k-th trial the sample has exactly k elements; running a
\* trial appends one element and leaves the elements before it unchanged,
\* and no other step changes the sample; the appended loss is 0 or
\* days * dailyLoss + the additional cost components of that trial's own
\* draws, whatever was recorded before.
C11_TrialOrderAndIndependence ==
    /\ [](Len(losses) = Len(attacks))
    /\ [][C11_Step]_vars

C11_Witness ==
    /\ pc = "sim"
    /\ Len(losses) = NUM_SIMULATIONS
    /\ attacks[1] /\ attacks[NUM_SIMULATIONS]
    /\ losses[1] > 0
    /\ losses[NUM_SIMULATIONS] > 0
    /\ losses[NUM_SIMULATIONS] < losses[1]

=============================================================================
